---- MODULE Spec2Model ----
(***************************************************************************)
(* State-machine model of solid-mcp (src/src/index.ts): the MCP tool       *)
(* dispatcher (CallTool handler), the Solid session it shares, the         *)
(* client-credentials login, the test wrapper's operations                 *)
(* (src/unnamed/part_000, TestSolidMCPServer), and run() with the login    *)
(* page listener on port 2233.                                             *)
(*                                                                         *)
(* Granularity: one step runs a handler from its start, or from the        *)
(* settling of the promise it awaits, up to its next await on the network  *)
(* or to its return.  Texts are ropes: the sequence of the segments of the *)
(* template literal that builds them.                                      *)
(***************************************************************************)
EXTENDS Integers, Sequences, FiniteSets, Bags, TLC

VARIABLES
    env,       \* process.env: SOLID_CLIENT_ID, SOLID_CLIENT_SECRET
    session,   \* this.session: info.isLoggedIn, info.webId, fetch
    files,     \* the paths of the regular files of the local filesystem
    calls,     \* the bag of the invocations in flight
    last,      \* the invocation that returned last, with what it did
    run,       \* run(): where it stands, and the listener on port 2233
    http       \* the requests the listener handled, and its last response

vars == <<env, session, files, calls, last, run, http>>

----------------------------------------------------------------------------
(* Bounds of the model *)

\* invocations that can be in flight together
MaxCalls == 2

\* requests the listener on port 2233 is sent
MaxRequests == 2

\* longest expression enumerated exhaustively over Alphabet
MaxExprLen == 4

----------------------------------------------------------------------------
(* JavaScript values *)

RECURSIVE Join(_)
\* the string of a sequence of characters
Join(cs) == IF cs = <<>> THEN "" ELSE Head(cs) \o Join(Tail(cs))

Digits == {"0", "1", "2", "3", "4", "5", "6", "7", "8", "9"}

\* the characters the regular expression of "calculate" keeps:
\* /[^0-9+\-*/.() ]/g removes every other one
Allowed == Digits \cup {"+", "-", "*", "/", ".", "(", ")", " "}


----------------------------------------------------------------------------
(* The values "new Function(...)()" can return for an expression over      *)
(* Allowed, and JavaScript's arithmetic on them.  A finite number is kept  *)
(* exactly while it is n/d with d a power of two up to MaxDen and |n| up   *)
(* to MaxNum: such a value is a double, and it prints with at most 15      *)
(* significant digits, so its exact decimal expansion is what              *)
(* Number::toString prints.  Any other result is "untracked": a value the  *)
(* model does not compute.                                                 *)

MaxNum == 10000000
MaxDen == 64

Val(k, n, d, s) == [k |-> k, n |-> n, d |-> d, s |-> s]
Rat(n, d)  == Val("rat", n, d, "")
NegZero    == Val("nzero", 0, 1, "")
PosInf     == Val("inf", 0, 1, "")
NegInf     == Val("ninf", 0, 1, "")
NaN        == Val("nan", 0, 1, "")
Untracked  == Val("untracked", 0, 1, "")
TypeErr    == Val("typeerror", 0, 1, "")
StrVal(s)   == Val("str", 0, 1, s)
RegexVal(s) == Val("regex", 0, 1, s)

Abs(n) == IF n < 0 THEN -n ELSE n

RECURSIVE Gcd(_, _)
Gcd(a, b) == IF b = 0 THEN a ELSE Gcd(b, a % b)

IsPow2UpTo(d, m) == \E k \in 0..6 : d = 2^k /\ d <= m

\* n/d (d > 0) as a value: reduced, and tracked only inside the exact range
Norm(n, d) ==
    LET g == Gcd(Abs(n), d)
        nn == n \div g
        dd == d \div g
    IN  IF Abs(nn) <= MaxNum /\ IsPow2UpTo(dd, MaxDen) THEN Rat(nn, dd) ELSE Untracked

\* a * b without leaving TLC's integers: the product when it is at most lim
MulFits(a, b, lim) == a = 0 \/ b = 0 \/ Abs(a) <= lim \div Abs(b)

IsZero(v)   == v.k = "nzero" \/ (v.k = "rat" /\ v.n = 0)
IsInf(v)    == v.k \in {"inf", "ninf"}
Negative(v) == v.k \in {"nzero", "ninf"} \/ (v.k = "rat" /\ v.n < 0)
Zero(neg)     == IF neg THEN NegZero ELSE Rat(0, 1)
Infinity(neg) == IF neg THEN NegInf ELSE PosInf

\* ToNumber: a RegExp object or a string holding "/" is NaN
ToNumber(v) == IF v.k \in {"str", "regex"} THEN NaN ELSE v

Neg(v) ==
    CASE v.k = "rat" /\ v.n # 0 -> Rat(-v.n, v.d)
      [] v.k = "rat"   -> NegZero
      [] v.k = "nzero" -> Rat(0, 1)
      [] v.k = "inf"   -> NegInf
      [] v.k = "ninf"  -> PosInf
      [] OTHER         -> v

NumAdd(a, b) ==
    CASE a.k = "nan" \/ b.k = "nan" -> NaN
      [] IsInf(a) /\ IsInf(b) -> IF a.k = b.k THEN a ELSE NaN
      [] IsInf(a) -> a
      [] IsInf(b) -> b
      [] IsZero(a) /\ IsZero(b) -> Zero(a.k = "nzero" /\ b.k = "nzero")
      [] IsZero(a) -> b
      [] IsZero(b) -> a
      [] OTHER ->
           LET dd == IF a.d > b.d THEN a.d ELSE b.d
           IN  Norm(a.n * (dd \div a.d) + b.n * (dd \div b.d), dd)

\* a "*" that adds
NumMul_Adds(a, b) == NumAdd(a, b)

NumMul(a, b) ==
    LET neg == Negative(a) # Negative(b)
    IN  CASE a.k = "nan" \/ b.k = "nan" -> NaN
          [] (IsInf(a) /\ IsZero(b)) \/ (IsZero(a) /\ IsInf(b)) -> NaN
          [] IsInf(a) \/ IsInf(b) -> Infinity(neg)
          [] IsZero(a) \/ IsZero(b) -> Zero(neg)
          [] MulFits(a.n, b.n, MaxNum * MaxDen) /\ a.d * b.d <= MaxDen * MaxDen ->
               Norm(a.n * b.n, a.d * b.d)
          [] OTHER -> Untracked

NumDiv(a, b) ==
    LET neg == Negative(a) # Negative(b)
    IN  CASE a.k = "nan" \/ b.k = "nan" -> NaN
          [] (IsInf(a) /\ IsInf(b)) \/ (IsZero(a) /\ IsZero(b)) -> NaN
          [] IsInf(a) \/ IsZero(b) -> Infinity(neg)
          [] IsInf(b) \/ IsZero(a) -> Zero(neg)
          [] MulFits(a.n, b.d, MaxNum * MaxDen) /\ MulFits(a.d, b.n, MaxNum * MaxDen) ->
               Norm((IF neg THEN -1 ELSE 1) * Abs(a.n) * b.d, a.d * Abs(b.n))
          [] OTHER -> Untracked

RECURSIVE PowNat(_, _)
\* a ** e for a finite a and an integer e >= 1, by repeated multiplication
PowNat(a, e) ==
    IF e = 1 THEN a
    ELSE LET p == PowNat(a, e - 1)
         IN  IF p.k = "untracked" THEN Untracked ELSE NumMul(p, a)

\* Number::exponentiate, tracked for a finite base and a small integer exponent
NumPow(a, b) ==
    CASE b.k = "nan" -> NaN
      [] IsZero(b) -> Rat(1, 1)
      [] a.k = "nan" -> NaN
      [] IsInf(a) \/ IsInf(b) -> Untracked
      [] b.d # 1 \/ Abs(b.n) > 64 -> Untracked
      [] b.n > 0 -> PowNat(a, b.n)
      [] OTHER ->
           LET p == PowNat(a, -b.n)
           IN  IF p.k = "untracked" THEN Untracked ELSE NumDiv(Rat(1, 1), p)


RECURSIVE FracDigits(_, _)
\* the decimal digits of r/d (0 < r < d, d a power of two), no trailing zero
FracDigits(r, d) ==
    IF r = 0 THEN ""
    ELSE ToString((10 * r) \div d) \o FracDigits((10 * r) % d, d)

\* Number::toString of a number; the text of a RegExp or a string
ValueText(v) ==
    CASE v.k = "rat" /\ v.d = 1 -> ToString(v.n)
      [] v.k = "rat" ->
           (IF v.n < 0 THEN "-" ELSE "") \o ToString(Abs(v.n) \div v.d)
              \o "." \o FracDigits(Abs(v.n) % v.d, v.d)
      [] v.k = "nzero" -> "0"
      [] v.k = "inf"   -> "Infinity"
      [] v.k = "ninf"  -> "-Infinity"
      [] v.k = "nan"   -> "NaN"
      [] v.k \in {"str", "regex"} -> v.s
      [] OTHER -> "<untracked>"

\* the binary operators: a call that failed and an untracked operand carry over
Binary(op, a, b) ==
    CASE a.k = "typeerror" \/ b.k = "typeerror" -> TypeErr
      [] a.k = "untracked" \/ b.k = "untracked" -> Untracked
      [] op = "+" /\ (a.k \in {"str", "regex"} \/ b.k \in {"str", "regex"}) ->
           StrVal(ValueText(a) \o ValueText(b))
      [] op = "+"  -> NumAdd(ToNumber(a), ToNumber(b))
      [] op = "-"  -> NumAdd(ToNumber(a), Neg(ToNumber(b)))
      [] op = "*"  -> NumMul(ToNumber(a), ToNumber(b))
      [] op = "/"  -> NumDiv(ToNumber(a), ToNumber(b))
      [] OTHER     -> NumPow(ToNumber(a), ToNumber(b))

\* the unary operators + and -
Unary(op, a) ==
    CASE a.k \in {"typeerror", "untracked"} -> a
      [] op = "-" -> Neg(ToNumber(a))
      [] OTHER    -> ToNumber(a)

----------------------------------------------------------------------------
(* The lexical grammar of JavaScript over Allowed *)

Tok(t, v) == [t |-> t, v |-> v]
Punct(t)  == Tok(t, NaN)
ErrTok    == Punct("error")

\* the first position from i on that holds no digit
RECURSIVE DigitsEnd(_, _)
DigitsEnd(w, i) ==
    IF i <= Len(w) /\ w[i] \in Digits THEN DigitsEnd(w, i + 1) ELSE i

RECURSIVE DigitsValue(_, _, _, _)
\* the number the digits w[i..j-1] write after acc; -1 once it leaves the range
DigitsValue(w, i, j, acc) ==
    IF i >= j THEN acc
    ELSE IF acc < 0 \/ acc > MaxNum THEN -1
    ELSE DigitsValue(w, i + 1, j, 10 * acc
           + (CHOOSE n \in 0..9 : ToString(n) = w[i]))

RECURSIVE Pow10(_)
Pow10(k) == IF k = 0 THEN 1 ELSE 10 * Pow10(k - 1)

\* A numeric literal starting at i: [end, tok].  In strict mode code a 0
\* followed by a digit (legacy octal, or a decimal with a leading zero) is a
\* SyntaxError; a "." with no digit on either side is no literal.
NumberAt(w, i) ==
    LET j == DigitsEnd(w, i)                      \* end of the integer part
        dot == j <= Len(w) /\ w[j] = "."
        k == IF dot THEN DigitsEnd(w, j + 1) ELSE j \* end of the literal
        ip == DigitsValue(w, i, j, 0)
        nf == k - j - 1                            \* digits of the fraction
        fp == IF dot THEN DigitsValue(w, j + 1, k, 0) ELSE 0
        val == IF ip < 0 \/ fp < 0 \/ (dot /\ nf > 6) THEN Untracked
               ELSE IF ~dot \/ nf = 0 THEN Norm(ip, 1)
               ELSE IF ip > MaxNum \div Pow10(nf) THEN Untracked
               ELSE Norm(ip * Pow10(nf) + fp, Pow10(nf))
    IN  IF j = i /\ (~dot \/ k = j + 1) THEN [end |-> i + 1, tok |-> ErrTok]
        ELSE IF j > i + 1 /\ w[i] = "0" THEN [end |-> k, tok |-> ErrTok]
        ELSE [end |-> k, tok |-> Tok("num", val)]

\* the first position from i on where a and then b stand; 0 when there is none
RECURSIVE FindPair(_, _, _, _)
FindPair(w, i, a, b) ==
    IF i + 1 > Len(w) THEN 0
    ELSE IF w[i] = a /\ w[i + 1] = b THEN i
    ELSE FindPair(w, i + 1, a, b)

\* the first position from i on that holds c; 0 when there is none
RECURSIVE Find(_, _, _)
Find(w, i, c) ==
    IF i > Len(w) THEN 0 ELSE IF w[i] = c THEN i ELSE Find(w, i + 1, c)

RECURSIVE PatternOk(_, _, _, _)
\* A regular expression pattern over Allowed without "/": the parentheses
\* nest, and each quantifier (* or +) follows an atom.
PatternOk(w, i, depth, atom) ==
    IF i > Len(w) THEN depth = 0
    ELSE CASE w[i] = "(" -> PatternOk(w, i + 1, depth + 1, FALSE)
           [] w[i] = ")" -> depth > 0 /\ PatternOk(w, i + 1, depth - 1, TRUE)
           [] w[i] \in {"*", "+"} -> atom /\ PatternOk(w, i + 1, depth, FALSE)
           [] OTHER -> PatternOk(w, i + 1, depth, TRUE)

\* A regular expression literal starting at i (w[i] = "/", and neither "/"
\* nor "*" follows): its flags are the digits after the closing "/", and no
\* digit is a flag.
RegexAt(w, i) ==
    LET j == Find(w, i + 1, "/")
    IN  IF j = 0 THEN [end |-> Len(w) + 1, tok |-> ErrTok]
        ELSE IF (j < Len(w) /\ w[j + 1] \in Digits)
                  \/ ~PatternOk(SubSeq(w, i + 1, j - 1), 1, 0, FALSE)
             THEN [end |-> j + 1, tok |-> ErrTok]
        ELSE [end |-> j + 1, tok |-> Tok("regex", RegexVal(Join(SubSeq(w, i, j))))]

RECURSIVE Lex(_, _, _)
\* The tokens of w from i on.  operand: the token before ends an operand, so
\* a "/" divides; otherwise it opens a regular expression literal.  A line
\* comment swallows the rest of the line, and with it the ")" that closes
\* the return expression.
Lex(w, i, operand) ==
    IF i > Len(w) THEN <<>>
    ELSE LET c == w[i]
             n == IF i < Len(w) THEN w[i + 1] ELSE ""
         IN  CASE c = " " -> Lex(w, i + 1, operand)
               [] c \in Digits \cup {"."} ->
                    LET r == NumberAt(w, i)
                    IN  IF r.tok = ErrTok THEN <<ErrTok>>
                        ELSE <<r.tok>> \o Lex(w, r.end, TRUE)
               [] c = "/" /\ n = "/" -> <<ErrTok>>
               [] c = "/" /\ n = "*" ->
                    LET e == FindPair(w, i + 2, "*", "/")
                    IN  IF e = 0 THEN <<ErrTok>> ELSE Lex(w, e + 2, operand)
               [] c = "/" /\ operand -> <<Punct("/")>> \o Lex(w, i + 1, FALSE)
               [] c = "/" ->
                    LET r == RegexAt(w, i)
                    IN  IF r.tok = ErrTok THEN <<ErrTok>>
                        ELSE <<r.tok>> \o Lex(w, r.end, TRUE)
               [] c \in {"+", "-"} /\ n = c -> <<ErrTok>>
               [] c = "*" /\ n = "*" -> <<Punct("**")>> \o Lex(w, i + 2, FALSE)
               [] c = ")" -> <<Punct(")")>> \o Lex(w, i + 1, TRUE)
               [] c \in {"+", "-", "*", "("} -> <<Punct(c)>> \o Lex(w, i + 1, FALSE)
               [] OTHER -> <<ErrTok>>


----------------------------------------------------------------------------
(* The expression grammar of JavaScript over these tokens, evaluated as it *)
(* is parsed.  A parse result is [ok, v, p]: whether an expression was     *)
(* read, its value, and the position after it.  No token names a function, *)
(* so a call is valid syntax and a TypeError when it runs.                 *)

Fail == [ok |-> FALSE, v |-> NaN, p |-> 0]
Ok(v, p) == [ok |-> TRUE, v |-> v, p |-> p]

Is(toks, p, t) == p <= Len(toks) /\ toks[p].t = t

RECURSIVE AdditiveExpression(_, _)
RECURSIVE AdditiveRest(_, _)
RECURSIVE MultiplicativeExpression(_, _)
RECURSIVE MultiplicativeRest(_, _)
RECURSIVE ExponentiationExpression(_, _)
RECURSIVE Power(_, _, _)
RECURSIVE UnaryExpression(_, _)
RECURSIVE CallRest(_, _)
RECURSIVE PrimaryExpression(_, _)

\* the expression e read after a "(", once its ")" is read
Parenthesised(toks, e) ==
    IF e.ok /\ Is(toks, e.p, ")") THEN Ok(e.v, e.p + 1) ELSE Fail

\* a call with the argument a read after its "(": whatever is called is no
\* function
Arguments(toks, a) ==
    IF a.ok /\ Is(toks, a.p, ")") THEN Ok(TypeErr, a.p + 1) ELSE Fail

\* the sign op before the expression e
Signed(op, e) == IF e.ok THEN Ok(Unary(op, e.v), e.p) ELSE Fail

\* left op right, for the operands read
Combine(op, left, right) ==
    IF right.ok THEN Ok(Binary(op, left.v, right.v), right.p) ELSE Fail

\* a number, a regular expression literal, or a parenthesised expression
PrimaryExpression(toks, p) ==
    IF Is(toks, p, "num") \/ Is(toks, p, "regex") THEN Ok(toks[p].v, p + 1)
    ELSE IF Is(toks, p, "(")
    THEN Parenthesised(toks, AdditiveExpression(toks, p + 1))
    ELSE Fail

\* the argument lists after a member expression: "()" or "(" expression ")"
CallRest(toks, left) ==
    IF ~left.ok THEN Fail
    ELSE IF ~Is(toks, left.p, "(") THEN left
    ELSE CallRest(toks,
           IF Is(toks, left.p + 1, ")") THEN Ok(TypeErr, left.p + 2)
           ELSE Arguments(toks, AdditiveExpression(toks, left.p + 1)))

UnaryExpression(toks, p) ==
    IF Is(toks, p, "+") \/ Is(toks, p, "-")
    THEN Signed(toks[p].t, UnaryExpression(toks, p + 1))
    ELSE CallRest(toks, PrimaryExpression(toks, p))

\* the unary expression e read at p, and a "**" after it: "**" takes no
\* signed expression on its left, and associates to the right
Power(toks, p, e) ==
    IF ~e.ok THEN Fail
    ELSE IF ~Is(toks, e.p, "**") THEN e
    ELSE IF Is(toks, p, "+") \/ Is(toks, p, "-") THEN Fail
    ELSE Combine("**", e, ExponentiationExpression(toks, e.p + 1))

ExponentiationExpression(toks, p) == Power(toks, p, UnaryExpression(toks, p))

MultiplicativeRest(toks, left) ==
    IF ~left.ok THEN Fail
    ELSE IF Is(toks, left.p, "*") \/ Is(toks, left.p, "/")
    THEN MultiplicativeRest(toks,
           Combine(toks[left.p].t, left, ExponentiationExpression(toks, left.p + 1)))
    ELSE left

MultiplicativeExpression(toks, p) ==
    MultiplicativeRest(toks, ExponentiationExpression(toks, p))

AdditiveRest(toks, left) ==
    IF ~left.ok THEN Fail
    ELSE IF Is(toks, left.p, "+") \/ Is(toks, left.p, "-")
    THEN AdditiveRest(toks,
           Combine(toks[left.p].t, left, MultiplicativeExpression(toks, left.p + 1)))
    ELSE left

AdditiveExpression(toks, p) ==
    AdditiveRest(toks, MultiplicativeExpression(toks, p))

\* what running the function can do: return a value, or throw
Returned(v) == [kind |-> "return", value |-> v, message |-> <<>>]
Thrown(m)   == [kind |-> "throw", value |-> NaN, message |-> m]

\* the messages of the engine's errors stand for whatever text it gives them
SyntaxErrorMessage == <<"SyntaxError">>
TypeErrorMessage   == <<"TypeError: not a function">>

\* the function body whose tokens were parsed as e, called: it must be one
\* expression and nothing more
Call(toks, e) ==
    IF ~e.ok \/ e.p # Len(toks) + 1 THEN Thrown(SyntaxErrorMessage)
    ELSE IF e.v.k = "typeerror" THEN Thrown(TypeErrorMessage)
    ELSE Returned(e.v)

\* the function body of these tokens, compiled and called
Compile(toks) ==
    IF \E i \in 1..Len(toks) : toks[i] = ErrTok THEN Thrown(SyntaxErrorMessage)
    ELSE Call(toks, AdditiveExpression(toks, 1))

\* new Function(`"use strict"; return (${code})`)(): the body is compiled
\* whole, so a syntax error anywhere is thrown before anything runs
EvalFunction(code) == Compile(Lex(<<"(">> \o code \o <<")">>, 1, FALSE))


----------------------------------------------------------------------------
(* The environment: credentials, the identity provider, the pod, the disk *)

\* an unset (or empty) environment variable: !clientId holds of both
Unset == ""

ClientIds == {"alice-client"}

\* a missing WebID: !webId holds of undefined and of the empty string
NoWebId == <<>>

\* the WebID the provider binds to a registered client
WebIdOf(clientId) ==
    IF clientId = "alice-client" THEN <<"https://", "id.example/alice#me">>
    ELSE <<"https://", "id.example/other#me">>

WebIds == {WebIdOf(c) : c \in ClientIds}

DefaultIssuer == "https://login.inrupt.com/"

\* how an awaited session.login() can settle: the session is logged in; the
\* promise rejects; it resolves with the session left as it was
LoginOutcomes == {"loggedIn", "rejected", "notLoggedIn"}

LoginRejectedMessage == <<"Login failed: the provider refused the credentials">>

\* the profile documents getSolidDataset can resolve with, and its rejection
Profiles ==
    { [thing |-> TRUE,  name |-> "Alice", mbox |-> "", homepage |-> "", knows |-> 2],
      [thing |-> FALSE, name |-> "",      mbox |-> "", homepage |-> "", knows |-> 0] }

FetchOutcomes == [ok : {TRUE}, profile : Profiles]
                   \cup {[ok |-> FALSE, profile |-> CHOOSE p \in Profiles : ~p.thing]}

FetchRejectedMessage == <<"Fetching the Resource failed">>

\* A path is the sequence of its segments; an absolute one starts with "/".
Cwd == <<"/", "work">>
ReadOnlyDir == <<"/", "ro">>
Dirs == {<<"/">>, Cwd, ReadOnlyDir}

\* path.resolve: an absolute path as it is, a relative one under the
\* working directory (the empty path is the working directory)
resolve(path) == IF path # <<>> /\ Head(path) = "/" THEN path ELSE Cwd \o path

Front(path) == SubSeq(path, 1, Len(path) - 1)

RECURSIVE PathText(_)
\* the string a path is written as
PathText(path) ==
    IF path = <<>> THEN ""
    ELSE IF Len(path) = 1 THEN Head(path)
    ELSE IF Head(path) = "/" THEN "/" \o PathText(Tail(path))
    ELSE Head(path) \o "/" \o PathText(Tail(path))

\* a filesystem on which no write fails
WriteError_None(p) == ""

\* fs.writeFile(p, content, "utf-8") on the resolved path p: the error it
\* rejects with, or "" when it writes
WriteError(p) ==
    CASE p \in Dirs           -> "EISDIR: illegal operation on a directory, open '"
      [] Front(p) \notin Dirs -> "ENOENT: no such file or directory, open '"
      [] Front(p) = ReadOnlyDir -> "EACCES: permission denied, open '"
      [] OTHER -> ""

\* fs.readdir(p) on the resolved path p: the error it rejects with, or ""
ReaddirError(p, fileSet) ==
    CASE p \in Dirs    -> ""
      [] p \in fileSet -> "ENOTDIR: not a directory, scandir '"
      [] OTHER         -> "ENOENT: no such file or directory, scandir '"

\* the names a directory can hold, in the order readdir reports them
EntryNames == <<"a.txt", "b.txt", "ro", "work">>

\* a readdir that reports the directories alone
DirEntries_DirsOnly(p, fileSet) ==
    SelectSeq(<<[name |-> "ro", isDirectory |-> TRUE],
                [name |-> "work", isDirectory |-> TRUE]>>,
              LAMBDA e : (p \o <<e.name>>) \in Dirs)

\* the Dirent objects of directory p: [name, isDirectory]
DirEntries(p, fileSet) ==
    LET here(n) == (p \o <<n>>) \in fileSet \/ (p \o <<n>>) \in Dirs
        pick[i \in 0..Len(EntryNames)] ==
            IF i = 0 THEN <<>>
            ELSE IF here(EntryNames[i])
                 THEN Append(pick[i - 1],
                        [name |-> EntryNames[i],
                         isDirectory |-> (p \o <<EntryNames[i]>>) \in Dirs])
                 ELSE pick[i - 1]
    IN  pick[Len(EntryNames)]

----------------------------------------------------------------------------
(* The Session of @inrupt/solid-client-authn-node, as index.ts and the     *)
(* tests use it.  fetch: the WebID whose tokens session.fetch sends, or    *)
(* NoWebId for the plain fetch of a session that is not logged in.         *)

NewSession == [isLoggedIn |-> FALSE, webId |-> NoWebId, fetch |-> NoWebId]

\* a session that logs in once only
SessionLogin_Once(s, outcome, clientId) ==
    IF outcome = "loggedIn" /\ s.webId = NoWebId
    THEN [isLoggedIn |-> TRUE, webId |-> WebIdOf(clientId), fetch |-> WebIdOf(clientId)]
    ELSE s

\* a login that leaves session.fetch unauthenticated
SessionLogin_NoFetch(s, outcome, clientId) ==
    IF outcome = "loggedIn"
    THEN [isLoggedIn |-> TRUE, webId |-> WebIdOf(clientId), fetch |-> NoWebId]
    ELSE s

\* the session once session.login({clientId, clientSecret, oidcIssuer}) settled
SessionLogin(s, outcome, clientId) ==
    IF outcome = "loggedIn"
    THEN [isLoggedIn |-> TRUE, webId |-> WebIdOf(clientId), fetch |-> WebIdOf(clientId)]
    ELSE s

\* a logout that leaves the session logged in
SessionLogout_Ignored(s) == s

\* the session once session.logout() settled: the WebID stays in session.info
SessionLogout(s) == [s EXCEPT !.isLoggedIn = FALSE, !.fetch = NoWebId]

\* TestSolidMCPServer.getSessionInfo
getSessionInfo == [isLoggedIn |-> session.isLoggedIn, webId |-> session.webId]


----------------------------------------------------------------------------
(* Requests and responses of the tool transport *)

\* the names of the tools the CallTool handler has a case for
ToolNames == {"read_file", "write_file", "list_directory", "calculate"}

\* A property of the arguments: its JSON type, and its value when it is a
\* string (a path as its segments, an expression as its characters, a
\* content as a rope).
Arg(t, v) == [t |-> t, v |-> v]
StringArg(v) == Arg("string", v)
Missing == Arg("undefined", <<>>)
NumberArg == Arg("number", <<>>)

\* request.params.arguments: an object with these properties, or undefined
Args(path, content, expression) ==
    [defined |-> TRUE, path |-> path, content |-> content, expression |-> expression]
NoArguments ==
    [defined |-> FALSE, path |-> Missing, content |-> Missing, expression |-> Missing]
EmptyObject == Args(Missing, Missing, Missing)

\* what the body of the handler's try block does: return a text, or throw
Return(text)   == [kind |-> "return", text |-> text]
Throw(message) == [kind |-> "throw", text |-> message]

\* the message of the ZodError that Schema.parse(args) throws
ZodMessage == <<"[zod issues]">>

\* z.object({...}).parse(args): whether args is an object whose listed
\* properties are strings
ParsesAs(args, props) ==
    args.defined /\ \A f \in props : args[f].t = "string"

TextContent(text) == <<[type |-> "text", text |-> text]>>

\* CallToolResult with the try block's throw not caught
CallToolResult_NoCatch(body) ==
    IF body.kind = "throw"
    THEN [escaped |-> TRUE, content |-> <<>>, isError |-> FALSE]
    ELSE [escaped |-> FALSE, content |-> TextContent(body.text), isError |-> FALSE]

\* What the CallTool handler resolves with: the try block's return value, or
\* the catch block's error result.  isError FALSE: the property is absent.
\* escaped: the handler's promise rejected instead.
CallToolResult(body) ==
    IF body.kind = "throw"
    THEN [escaped |-> FALSE, content |-> TextContent(<<"Error: ">> \o body.text),
          isError |-> TRUE]
    ELSE [escaped |-> FALSE, content |-> TextContent(body.text), isError |-> FALSE]

NoResult == [escaped |-> FALSE, content |-> <<>>, isError |-> FALSE]

----------------------------------------------------------------------------
(* The cases of the CallTool handler that do not await the network *)

\* a replace whose character class also keeps letters
Sanitize_KeepsLetters(expression) ==
    SelectSeq(expression, LAMBDA c : c \in Allowed \cup {"a"})

\* expression.replace(/[^0-9+\-*/.() ]/g, "")
Sanitize(expression) == SelectSeq(expression, LAMBDA c : c \in Allowed)

InvalidCharactersMessage ==
    <<"Invalid characters in expression. Only numbers and +, -, *, /, (, ) are allowed.">>

\* a calculate that takes a result that is not finite for a failure
Evaluated_FiniteOnly(expression, sanitized, result) ==
    [body |-> IF result.kind = "throw" \/ result.value.k \in {"inf", "ninf", "nan"}
              THEN Throw(<<"Failed to evaluate expression: ">> \o result.message)
              ELSE Return(<<Join(expression), " = ", ValueText(result.value)>>),
     evaluated |-> TRUE, code |-> sanitized]

\* a calculate that answers for an evaluator that threw
Evaluated_Swallows(expression, sanitized, result) ==
    [body |-> Return(<<Join(expression), " = ",
                       IF result.kind = "throw" THEN "undefined"
                       ELSE ValueText(result.value)>>),
     evaluated |-> TRUE, code |-> sanitized]

\* case "calculate" from the inner try on, new Function(...)() having done
\* result on the code sanitized
Evaluated(expression, sanitized, result) ==
    [body |-> IF result.kind = "throw"
              THEN Throw(<<"Failed to evaluate expression: ">> \o result.message)
              ELSE Return(<<Join(expression), " = ", ValueText(result.value)>>),
     evaluated |-> TRUE, code |-> sanitized]

\* case "calculate": [body, evaluated, code]: what the try block does,
\* whether new Function was called, and the code it was called with
Calculate(args) ==
    IF ~ParsesAs(args, {"expression"})
    THEN [body |-> Throw(ZodMessage), evaluated |-> FALSE, code |-> <<>>]
    ELSE IF Sanitize(args.expression.v) # args.expression.v
    THEN [body |-> Throw(InvalidCharactersMessage), evaluated |-> FALSE, code |-> <<>>]
    ELSE Evaluated(args.expression.v, Sanitize(args.expression.v),
                   EvalFunction(Sanitize(args.expression.v)))

\* a default: that answers instead of throwing
UnknownTool_Answers(name) == Return(<<"Unknown tool: ", name>>)

\* default: of the switch
UnknownTool(name) == Throw(<<"Unknown tool: ", name>>)

\* a write_file that writes what it has of the arguments before it
\* validates them
WriteFile_Unvalidated(args, fileMap) ==
    IF args.defined /\ args.path.t = "string"
    THEN [body |-> IF ParsesAs(args, {"path", "content"})
                   THEN Return(<<"Successfully wrote to ", PathText(args.path.v)>>)
                   ELSE Throw(ZodMessage),
          files |-> [q \in DOMAIN fileMap \cup {resolve(args.path.v)} |->
                       IF q = resolve(args.path.v) THEN <<>> ELSE fileMap[q]],
          fs |-> "writeFile"]
    ELSE [body |-> Throw(ZodMessage), files |-> fileMap, fs |-> "none"]

\* case "write_file": [body, files, fs]: what the try block does, the files
\* after it, and the call of fs/promises it made
WriteFile(args, fileMap) ==
    IF ~ParsesAs(args, {"path", "content"})
    THEN [body |-> Throw(ZodMessage), files |-> fileMap, fs |-> "none"]
    ELSE LET path == args.path.v
             resolvedPath == resolve(path)
             error == WriteError(resolvedPath)
         IN  IF error # ""
             THEN [body |-> Throw(<<error, PathText(resolvedPath), "'">>),
                   files |-> fileMap, fs |-> "writeFile"]
             ELSE [body |-> Return(<<"Successfully wrote to ", PathText(path)>>),
                   files |-> [q \in DOMAIN fileMap \cup {resolvedPath} |->
                                IF q = resolvedPath THEN args.content.v
                                ELSE fileMap[q]],
                   fs |-> "writeFile"]

RECURSIVE FormatEntries(_)
\* entries.map(entry => `${type} ${entry.name}`).join("\n")
FormatEntries(entries) ==
    IF entries = <<>> THEN <<>>
    ELSE <<IF Head(entries).isDirectory THEN "[dir]" ELSE "[file]", " ",
           Head(entries).name>>
         \o (IF Len(entries) > 1 THEN <<"\n">> ELSE <<>>)
         \o FormatEntries(Tail(entries))

\* case "list_directory": [body, fs]: what the try block does, and the call
\* of fs/promises it made
ListDirectory(args, fileMap) ==
    IF ~ParsesAs(args, {"path"})
    THEN [body |-> Throw(ZodMessage), fs |-> "none"]
    ELSE LET path == args.path.v
             resolvedPath == resolve(path)
             error == ReaddirError(resolvedPath, DOMAIN fileMap)
         IN  [body |->
                IF error # ""
                THEN Throw(<<error, PathText(resolvedPath), "'">>)
                ELSE Return(<<"Directory: ", PathText(path), "\n\n">>
                              \o FormatEntries(DirEntries(resolvedPath, DOMAIN fileMap))),
              fs |-> "readdir"]


----
(* authenticateWithSolid, fetchWebIdProfile and case "read_file" *)

MissingCredentialsMessage ==
    <<"Missing SOLID_CLIENT_ID or SOLID_CLIENT_SECRET environment variables">>
NotLoggedInMessage == <<"Authentication failed - session is not logged in">>
NoWebIdMessage == <<"No WebID found in authenticated session">>

\* a read_file that never authenticates
NeedsAuthentication_Never(s) == FALSE

\* a read_file that authenticates on every invocation
NeedsAuthentication_Always(s) == TRUE

\* case "read_file": whether it calls authenticateWithSolid
NeedsAuthentication(s) == ~s.isLoggedIn

\* a credentials check that looks at the client secret alone
HasCredentials_SecretOnly(e) == e.SOLID_CLIENT_SECRET # Unset

\* a credentials check that looks at the client id alone
HasCredentials_IdOnly(e) == e.SOLID_CLIENT_ID # Unset

\* authenticateWithSolid up to its await: the credentials check.  TRUE when it
\* goes on to call session.login; otherwise it throws MissingCredentialsMessage.
HasCredentials(e) == e.SOLID_CLIENT_ID # Unset /\ e.SOLID_CLIENT_SECRET # Unset

\* an authenticateWithSolid without the isLoggedIn check after the login
AuthenticationError_Unchecked(s, outcome) ==
    IF outcome = "rejected" THEN LoginRejectedMessage ELSE <<>>

\* authenticateWithSolid after its await, on the session s that login left:
\* the message it throws, or <<>> when it returns
AuthenticationError(s, outcome) ==
    IF outcome = "rejected" THEN LoginRejectedMessage
    ELSE IF s.isLoggedIn THEN <<>>
    ELSE NotLoggedInMessage

OrElse(value, default) == IF value = "" THEN default ELSE value

\* the text fetchWebIdProfile builds from the profile, webId and the session,
\* as a rope cut where the template has a pictograph (left out) or a value
ProfileInfo(webId, profile, s) ==
    <<"\n", "Solid Authentication & WebID Profile\n======================================\n\n",
      "Authentication Status: Successfully authenticated with Solid Pod\n",
      "WebID Retrieved from Session: ">> \o webId \o
    <<"\n\n", "Profile Information:\n----------------------\nName: ", OrElse(profile.name, "Name not available"),
      "\nEmail: ", OrElse(profile.mbox, "Email not available"),
      "\nHomepage: ", OrElse(profile.homepage, "Homepage not available"),
      "\nFriends/Connections: ", ToString(profile.knows),
      "\n\n", "Session Details:\n------------------\nLogged In: ", IF s.isLoggedIn THEN "Yes" ELSE "No",
      "\nSession WebID: ">> \o (IF s.webId = NoWebId THEN <<"Not available">> ELSE s.webId) \o
    <<"\nOIDC Issuer: ", DefaultIssuer, "\n">>

\* fetchWebIdProfile(webId) after its await, on the session s: what it does
FetchWebIdProfile(webId, outcome, s) ==
    IF ~outcome.ok
    THEN Throw(<<"Failed to fetch WebID profile: ">> \o FetchRejectedMessage)
    ELSE IF ~outcome.profile.thing
    THEN Throw(<<"Failed to fetch WebID profile: ", "No profile found at WebID: ">>
                 \o webId)
    ELSE Return(ProfileInfo(webId, outcome.profile, s))

----------------------------------------------------------------------------
(* Invocations.  calls is the bag of the invocations suspended at an        *)
(* await: pc "login" (session.login) or "fetch" (getSolidDataset).         *)
(*   op             the operation: "tool" (the CallTool handler) or a       *)
(*                  method of TestSolidMCPServer                            *)
(*   startLoggedIn  session.info.isLoggedIn when the invocation started     *)
(*   startWebId     session.info.webId when the invocation started          *)
(*   auth           authenticateWithSolid was called                        *)
(*   login          session.login was called                                *)
(*   clientId       the client id given to session.login                    *)
(*   webId          the webId whose profile is fetched                      *)
(*   fetchAs        session.fetch as handed to getSolidDataset              *)

Idle ==
    [pc |-> "idle", op |-> "none", args |-> NoArguments,
     startLoggedIn |-> FALSE, startWebId |-> NoWebId,
     auth |-> FALSE, login |-> FALSE, clientId |-> Unset, webId |-> NoWebId,
     fetched |-> FALSE, fetchAs |-> NoWebId]

NoTestResult ==
    [threw |-> FALSE, message |-> <<>>, success |-> FALSE, isLoggedIn |-> FALSE,
     webId |-> NoWebId, sessionWebId |-> NoWebId]

\* last: the invocation that returned, what it returned (result for a tool,
\* test for a method of TestSolidMCPServer), and what it did on the way
Nothing ==
    [op |-> "none", name |-> "", args |-> NoArguments, result |-> NoResult,
     threw |-> FALSE, test |-> NoTestResult,
     startLoggedIn |-> FALSE, startWebId |-> NoWebId,
     auth |-> FALSE, login |-> FALSE, fetched |-> FALSE,
     evaluated |-> FALSE, code |-> <<>>, fs |-> "none", tools |-> <<>>]

\* a tool invocation that ran to its end without awaiting the network
ToolDone(name, args, body) ==
    [Nothing EXCEPT !.op = "tool", !.name = name, !.args = args,
                    !.result = CallToolResult(body), !.threw = (body.kind = "throw")]

\* a write_file or list_directory invocation that did r; fs: the call of
\* fs/promises it made
FileDone(name, args, r) == [ToolDone(name, args, r.body) EXCEPT !.fs = r.fs]

\* a calculate invocation that did c
CalculateDone(args, c) ==
    [ToolDone("calculate", args, c.body)
       EXCEPT !.evaluated = c.evaluated, !.code = c.code]

\* the read_file invocation c, returning with body
ReadFileDone(c, body) ==
    [Nothing EXCEPT !.op = "tool", !.name = "read_file", !.args = c.args,
                    !.result = CallToolResult(body), !.threw = (body.kind = "throw"),
                    !.startLoggedIn = c.startLoggedIn,
                    !.startWebId = c.startWebId, !.auth = c.auth,
                    !.login = c.login, !.fetched = c.fetched]

\* a method of TestSolidMCPServer returning (or throwing) for the invocation c
TestDone(c, test) ==
    [Nothing EXCEPT !.op = c.op, !.test = test, !.threw = test.threw,
                    !.startLoggedIn = c.startLoggedIn,
                    !.startWebId = c.startWebId, !.auth = c.auth,
                    !.login = c.login, !.fetched = c.fetched]

TestThrew(message) == [NoTestResult EXCEPT !.threw = TRUE, !.message = message]


----------------------------------------------------------------------------
(* The inputs the model draws *)

\* tool names the switch has no case for
UnknownNames == {"delete_file", "Read_File"}

\* the characters expressions are enumerated over: allowed ones, a letter
\* and a tab
Alphabet == {"0", "1", "2", "3", "+", "-", "*", "/", "(", ")", " ", ".", "a", "\t"}

\* expressions as the documentation has them
DocumentedExpressions ==
    { <<"2", " ", "+", " ", "2", " ", "*", " ", "3">>,
      <<"2", "+", "2", ";", " ", "p", "(", ")">>,
      <<"2", " ", "+">> }

\* longer expressions, for the exhaustive run
SampleExpressions ==
    { <<"2", " ", "+", " ", "2", " ", "*", " ", "3">>,
      <<"2", "*", "3", "+", "4">>,
      <<"(", "1", "+", "2", ")", "*", "3">>,
      <<"8", "-", "4", "-", "2">>,
      <<"8", "/", "4", "/", "2">>,
      <<"1", "5", " ", "*", " ", "2", "3", " ", "+", " ", "7">>,
      <<"2", "+", "2", ";", " ", "p", "(", ")">>,
      <<"(", "1", ")", "(", "2", ")">>,
      <<"1", "/", "0">>,
      <<"2", " ", "+">>,
      <<>> }

\* every expression of at most n characters of Alphabet
ExpressionsUpTo(n) == UNION {[1..k -> Alphabet] : k \in 0..n}

ExpressionArgs(e) == Args(Missing, Missing, StringArg(e))

CalculateArgs ==
    {ExpressionArgs(e) : e \in DocumentedExpressions}
      \cup {NoArguments, Args(Missing, Missing, NumberArg)}

WritePaths == { <<"a.txt">>, <<"/", "nodir", "a.txt">> }

Contents == { <<"hello">> }

WriteFileArgs ==
    {Args(StringArg(p), StringArg(t), Missing) : p \in WritePaths, t \in Contents}
      \cup {Args(StringArg(<<"a.txt">>), Missing, Missing)}

ListPaths == { <<>>, <<"/", "nodir">> }

ListDirectoryArgs ==
    {Args(StringArg(p), Missing, Missing) : p \in ListPaths}
      \cup {NoArguments}

ReadFileArgs == {EmptyObject, NoArguments}

\* paths of the filesystem run: relative and absolute ones, in the working
\* directory, the root, a read-only directory and a missing one, and
\* directories themselves
FilePaths ==
    { <<"a.txt">>, <<"b.txt">>, <<"/", "work", "a.txt">>, <<"/", "a.txt">>,
      <<"/", "ro", "a.txt">>, <<"/", "nodir", "a.txt">>, <<"/", "work">>, <<>> }

FileContents == { <<"hello">>, <<"bye">> }

FileWriteArgs ==
    {Args(StringArg(p), StringArg(t), Missing) : p \in FilePaths, t \in FileContents}
      \cup {Args(StringArg(<<"b.txt">>), Missing, Missing)}

FileListArgs ==
    {Args(StringArg(p), Missing, Missing) :
        p \in {<<>>, <<"/">>, <<"/", "work">>, <<"/", "ro">>, <<"/", "nodir">>,
               <<"a.txt">>}}

----------------------------------------------------------------------------
(* The operations *)

CallCalculate(args) ==
    /\ last' = CalculateDone(args, Calculate(args))
    /\ UNCHANGED <<env, run, http, session, files, calls>>

CallUnknown(name) ==
    /\ name \notin ToolNames
    /\ last' = ToolDone(name, EmptyObject, UnknownTool(name))
    /\ UNCHANGED <<env, run, http, session, files, calls>>

CallWriteFile(args) ==
    LET w == WriteFile(args, files)
    IN  /\ files' = w.files
        /\ last' = FileDone("write_file", args, w)
        /\ UNCHANGED <<env, run, http, session, calls>>

CallListDirectory(args) ==
    /\ last' = FileDone("list_directory", args, ListDirectory(args, files))
    /\ UNCHANGED <<env, run, http, session, files, calls>>

\* a listing that leaves calculate out
Tools_WithoutCalculate == <<"read_file", "write_file", "list_directory">>

\* the tools of the ListTools handler, by name
Tools == <<"read_file", "write_file", "list_directory", "calculate">>

\* a ListTools handler that starts over with a new session
ListTools_NewSession ==
    /\ last' = [Nothing EXCEPT !.op = "list", !.tools = Tools]
    /\ session' = NewSession
    /\ UNCHANGED <<env, run, http, files, calls>>

\* the ListTools handler
ListTools ==
    /\ last' = [Nothing EXCEPT !.op = "list", !.tools = Tools]
    /\ UNCHANGED <<env, run, http, session, files, calls>>

\* the invocations in flight once c has joined them, and once c has left
Joined(c) == calls (+) SetToBag({c})
Left(c)   == calls (-) SetToBag({c})

\* case "read_file" from the webId check on, for the invocation c on the
\* session s; others: the other invocations in flight
ReadFileProfile(others, c, s) ==
    IF s.webId = NoWebId
    THEN /\ last' = ReadFileDone(c, Throw(NoWebIdMessage))
         /\ calls' = others
    ELSE /\ calls' = others (+) SetToBag({[c EXCEPT !.pc = "fetch", !.webId = s.webId,
                                                   !.fetched = TRUE,
                                                   !.fetchAs = s.fetch]})
         /\ UNCHANGED last

\* a read_file invocation as it starts
ReadFileCall(args) ==
    [Idle EXCEPT !.op = "tool", !.args = args,
                 !.startLoggedIn = session.isLoggedIn,
                 !.startWebId = session.webId]

\* case "read_file" up to its first await
CallReadFile(args) ==
    /\ BagCardinality(calls) < MaxCalls
    /\ UNCHANGED <<env, run, http, session, files>>
    /\ IF ~ParsesAs(args, {})
       THEN /\ last' = ReadFileDone(ReadFileCall(args), Throw(ZodMessage))
            /\ UNCHANGED calls
       ELSE IF ~NeedsAuthentication(session)
       THEN ReadFileProfile(calls, ReadFileCall(args), session)
       ELSE IF ~HasCredentials(env)
       THEN /\ last' = ReadFileDone([ReadFileCall(args) EXCEPT !.auth = TRUE],
                                    Throw(MissingCredentialsMessage))
            /\ UNCHANGED calls
       ELSE /\ calls' = Joined([ReadFileCall(args) EXCEPT
                                  !.pc = "login", !.auth = TRUE, !.login = TRUE,
                                  !.clientId = env.SOLID_CLIENT_ID])
            /\ UNCHANGED last

\* a testAuthenticateWithSolid invocation as it starts
AuthenticateCall ==
    [Idle EXCEPT !.op = "testAuthenticateWithSolid", !.auth = TRUE,
                 !.startLoggedIn = session.isLoggedIn,
                 !.startWebId = session.webId]

\* TestSolidMCPServer.testAuthenticateWithSolid up to its await
TestAuthenticateWithSolid ==
    /\ BagCardinality(calls) < MaxCalls
    /\ UNCHANGED <<env, run, http, session, files>>
    /\ IF ~HasCredentials(env)
       THEN /\ last' = TestDone(AuthenticateCall, TestThrew(MissingCredentialsMessage))
            /\ UNCHANGED calls
       ELSE /\ calls' = Joined([AuthenticateCall EXCEPT
                                  !.pc = "login", !.login = TRUE,
                                  !.clientId = env.SOLID_CLIENT_ID])
            /\ UNCHANGED last

\* what testAuthenticateWithSolid returns, or throws, on the session s that
\* login left
AuthenticateResult(s, error) ==
    IF error # <<>> THEN TestThrew(error)
    ELSE [NoTestResult EXCEPT !.success = s.isLoggedIn, !.webId = s.webId,
                              !.isLoggedIn = s.isLoggedIn]

\* authenticateWithSolid and its caller c run on after session.login left
\* the session s
AfterLogin(c, s, error) ==
    /\ session' = s
    /\ IF c.op = "tool"
       THEN IF error # <<>>
            THEN /\ last' = ReadFileDone(c, Throw(error))
                 /\ calls' = Left(c)
            ELSE ReadFileProfile(Left(c), c, s)
       ELSE /\ calls' = Left(c)
            /\ last' = TestDone(c, AuthenticateResult(s, error))

\* session.login settles for the invocation c, and authenticateWithSolid
\* and its caller run on
LoginSettles(c, outcome) ==
    /\ BagIn(c, calls)
    /\ c.pc = "login"
    /\ UNCHANGED <<env, run, http, files>>
    /\ AfterLogin(c, SessionLogin(session, outcome, c.clientId),
                  AuthenticationError(SessionLogin(session, outcome, c.clientId),
                                      outcome))

\* TestSolidMCPServer.testFetchWebIdProfile(webId) up to its await
TestFetchWebIdProfile(webId) ==
    /\ BagCardinality(calls) < MaxCalls
    /\ calls' = Joined([Idle EXCEPT !.op = "testFetchWebIdProfile", !.pc = "fetch",
                                    !.startLoggedIn = session.isLoggedIn,
                                    !.startWebId = session.webId,
                                    !.webId = webId, !.fetched = TRUE,
                                    !.fetchAs = session.fetch])
    /\ UNCHANGED <<env, run, http, session, files, last>>

\* what testFetchWebIdProfile returns, or throws, for the invocation c
FetchResult(c, body) ==
    IF body.kind = "throw" THEN TestThrew(body.text)
    ELSE [NoTestResult EXCEPT !.webId = c.webId,
                              !.isLoggedIn = session.isLoggedIn,
                              !.sessionWebId = session.webId]

\* fetchWebIdProfile and its caller c run on, fetchWebIdProfile doing body
AfterFetch(c, body) ==
    /\ calls' = Left(c)
    /\ last' = IF c.op = "tool" THEN ReadFileDone(c, body)
               ELSE TestDone(c, FetchResult(c, body))

\* getSolidDataset settles for the invocation c, and fetchWebIdProfile and
\* its caller run on
FetchSettles(c, outcome) ==
    /\ BagIn(c, calls)
    /\ c.pc = "fetch"
    /\ AfterFetch(c, FetchWebIdProfile(c.webId, outcome, session))
    /\ UNCHANGED <<env, run, http, session, files>>

\* TestSolidMCPServer.testLogout
TestLogout ==
    /\ session' = SessionLogout(session)
    /\ last' = TestDone([Idle EXCEPT !.op = "testLogout",
                                     !.startLoggedIn = session.isLoggedIn,
                                     !.startWebId = session.webId],
                        NoTestResult)
    /\ UNCHANGED <<env, run, http, files, calls>>

----------------------------------------------------------------------------
(* run(): the login page listener, the browser, and the stdio transport *)

\* the words the request listener looks for in req.url
Routes == {"callback", "script", "start"}

\* a request URL, as the set of the words of Routes it includes: the pages
\* the browser asks for, a URL of no route, and URLs that hold the letters
\* of several routes (a callback URL with "start" in its query)
Urls == SUBSET Routes

AuthSdkBundle == <<"[solid-client-authn-browser.bundle.js]">>
StartPage == <<"[page: script ./script, login at https://login.inrupt.com",
               " with redirectUrl /callback]">>

\* a response nothing was written to: headers not sent, not ended
NoResponse ==
    [headersSent |-> FALSE, status |-> 0, type |-> "", body |-> <<>>,
     ended |-> FALSE, threw |-> FALSE]

\* res.write(body); res.end() with the implicit headers
Write(res, body) ==
    [res EXCEPT !.headersSent = TRUE, !.status = 200,
                !.body = @ \o body, !.ended = TRUE]

\* a route that answers with a redirect to the identity provider
WriteHead_Redirects(res, type, body) ==
    [res EXCEPT !.headersSent = TRUE, !.status = 302, !.ended = TRUE]

\* res.writeHead(200, {"Content-Type": type}); res.write(body); res.end():
\* writeHead throws ERR_HTTP_HEADERS_SENT once the headers are sent
WriteHead(res, type, body) ==
    IF res.headersSent THEN [res EXCEPT !.threw = TRUE]
    ELSE [res EXCEPT !.headersSent = TRUE, !.status = 200, !.type = type,
                     !.body = body, !.ended = TRUE]

\* a request listener whose callback route exchanges the code for a token
\* and logs the session in
RequestListener_Exchanges(url, s) ==
    [res |-> Write(NoResponse, <<"NOTHING YET">>),
     session |-> IF "callback" \in url
                 THEN [s EXCEPT !.isLoggedIn = TRUE,
                                !.webId = <<"https://", "id.example/alice#me">>]
                 ELSE s,
     close |-> FALSE, exchange |-> "callback" \in url]

\* The request listener of http.createServer on a request for url, with
\* the session s: the response, the session it leaves, whether it called
\* server.close(), and whether it exchanged the code for a token.  The three
\* tests of req.url are independent ifs.
RequestListener(url, s) ==
    LET callback == IF "callback" \in url
                    THEN Write(NoResponse, <<"NOTHING YET">>) ELSE NoResponse
        script   == IF "script" \in url
                    THEN WriteHead(callback, "text/javascript", AuthSdkBundle)
                    ELSE callback
        start    == IF "start" \in url /\ ~script.threw
                    THEN WriteHead(script, "text/html", StartPage)
                    ELSE script
    IN  [res |-> start, session |-> s, close |-> FALSE, exchange |-> FALSE]

\* run() as it is called: awaiting fs.readFile of the bundle, nothing
\* listening, no transport; sigint: where the SIGINT handler stands;
\* status: the exit code of the process once it ended
Started ==
    [pc |-> "readFile", listener |-> "none", transport |-> "none",
     sigint |-> "none", status |-> -1]

\* the process after it ended with the exit code status: the operating
\* system released the port and the standard streams
Exited(status) ==
    [pc |-> "exited", listener |-> "none", transport |-> "closed",
     sigint |-> "none", status |-> status]

\* run() after this.server.connect(transport)
Connected ==
    [pc |-> "serving", listener |-> "listening", transport |-> "connected",
     sigint |-> "none", status |-> -1]

\* pending: the start pages served that no callback request has followed
NoExchange ==
    [n |-> 0, callbacks |-> 0, pending |-> 0, url |-> {}, res |-> NoResponse,
     exchange |-> FALSE, whileLoggedIn |-> FALSE]

\* fs.readFile of the bundle settles and run() goes on to createServer,
\* listen(2233) and open(..., {wait: true}); a rejected readFile rejects
\* run() (process.exit(1)), a port in use ends the process on the
\* listener's unhandled error event
ReadFileSettles(outcome) ==
    /\ run.pc = "readFile"
    /\ run.sigint = "none"
    /\ run' = IF outcome = "read"
              THEN [run EXCEPT !.pc = "open", !.listener = "listening"]
              ELSE Exited(1)
    /\ UNCHANGED <<env, session, files, calls, last, http>>

BundleOutcomes == {"read", "ENOENT", "EADDRINUSE"}

\* open(...) settles: it resolves when the browser is closed, and run()
\* connects the dispatcher to the stdio transport; rejected, run() rejects
OpenSettles(outcome) ==
    /\ run.pc = "open"
    /\ run.sigint = "none"
    /\ run' = IF outcome = "closed"
              THEN [run EXCEPT !.pc = "serving", !.transport = "connected"]
              ELSE Exited(1)
    /\ UNCHANGED <<env, session, files, calls, last, http>>

OpenOutcomes == {"closed", "rejected"}

\* the listener after the request listener returned h
Listening(h) ==
    IF h.res.threw THEN Exited(1)
    ELSE IF h.close THEN [run EXCEPT !.listener = "closed"]
    ELSE run

\* what http records of the request for url, handled as h
Handled(url, h) ==
    [n |-> http.n + 1,
     callbacks |-> http.callbacks + (IF "callback" \in url THEN 1 ELSE 0),
     pending |-> IF h.res.threw THEN http.pending
                 ELSE IF "start" \in url THEN http.pending + 1
                 ELSE IF "callback" \in url /\ http.pending > 0 THEN http.pending - 1
                 ELSE http.pending,
     url |-> url, res |-> h.res, exchange |-> h.exchange,
     whileLoggedIn |-> session.isLoggedIn]

\* a request for url arrives at port 2233; a throw of the request listener
\* is an uncaught exception, which ends the process
HttpRequest(url) ==
    /\ run.listener = "listening"
    /\ run.sigint = "none"
    /\ http.n < MaxRequests
    /\ session' = RequestListener(url, session).session
    /\ run' = Listening(RequestListener(url, session))
    /\ http' = Handled(url, RequestListener(url, session))
    /\ UNCHANGED <<env, files, calls, last>>

\* a handler of SIGINT that closes the login page listener with the server
Sigint_ClosesListener ==
    /\ run.pc # "exited"
    /\ run.sigint = "none"
    /\ run' = [run EXCEPT !.sigint = "closing", !.listener = "none",
                          !.transport = IF @ = "connected" THEN "closed" ELSE @]
    /\ UNCHANGED <<env, session, files, calls, last, http>>

\* SIGINT: sigintHandler up to its await of this.server.close(), which
\* closes the transport the server is connected to.  The close settles
\* before the process takes another event.
Sigint ==
    /\ run.pc # "exited"
    /\ run.sigint = "none"
    /\ run' = [run EXCEPT !.sigint = "closing",
                          !.transport = IF @ = "connected" THEN "closed" ELSE @]
    /\ UNCHANGED <<env, session, files, calls, last, http>>

\* this.server.close() settled: process.exit(0)
SigintExits ==
    /\ run.sigint = "closing"
    /\ run' = Exited(0)
    /\ UNCHANGED <<env, session, files, calls, last, http>>

----------------------------------------------------------------------------
(* The specifications *)

Environments == [SOLID_CLIENT_ID : ClientIds \cup {Unset},
                 SOLID_CLIENT_SECRET : {"secret", Unset}]

\* the state the constructor leaves
Constructed ==
    /\ env \in Environments
    /\ session = NewSession
    /\ files = <<>>
    /\ calls = EmptyBag
    /\ last = Nothing
    /\ http = NoExchange

\* the dispatcher as run() leaves it: connected to its transport
Init == Constructed /\ run = Connected

Next ==
    \/ ListTools
    \/ \E name \in UnknownNames : CallUnknown(name)
    \/ \E args \in CalculateArgs : CallCalculate(args)
    \/ \E args \in WriteFileArgs : CallWriteFile(args)
    \/ \E args \in ListDirectoryArgs : CallListDirectory(args)
    \/ \E args \in ReadFileArgs : CallReadFile(args)
    \/ \E c \in BagToSet(calls), outcome \in LoginOutcomes : LoginSettles(c, outcome)
    \/ \E c \in BagToSet(calls), outcome \in FetchOutcomes : FetchSettles(c, outcome)
    \/ TestAuthenticateWithSolid
    \/ \E webId \in WebIds : TestFetchWebIdProfile(webId)
    \/ TestLogout

Spec == Init /\ [][Next]_vars

\* one calculate invocation on the server as constructed, over every
\* expression of at most MaxExprLen characters and the samples
NextCalculate ==
    /\ last = Nothing
    /\ \E e \in ExpressionsUpTo(MaxExprLen) \cup SampleExpressions :
          CallCalculate(ExpressionArgs(e))

InitCalculate == Init /\ HasCredentials(env)

SpecCalculate == InitCalculate /\ [][NextCalculate]_vars

\* write_file and list_directory over the paths of FilePaths
NextFiles ==
    \/ \E args \in FileWriteArgs : CallWriteFile(args)
    \/ \E args \in FileListArgs : CallListDirectory(args)

SpecFiles == Init /\ [][NextFiles]_vars

\* the server from the call of run() on: tools are invoked over the
\* transport, so once it is connected
Serving == run.pc = "serving" /\ run.sigint = "none"

NextRun ==
    \/ \E outcome \in BundleOutcomes : ReadFileSettles(outcome)
    \/ \E outcome \in OpenOutcomes : OpenSettles(outcome)
    \/ \E url \in Urls : HttpRequest(url)
    \/ Sigint
    \/ SigintExits
    \/ Serving /\ \E args \in ReadFileArgs : CallReadFile(args)
    \/ Serving /\ \E c \in BagToSet(calls), outcome \in LoginOutcomes :
                     LoginSettles(c, outcome)
    \/ Serving /\ \E c \in BagToSet(calls), outcome \in FetchOutcomes :
                     FetchSettles(c, outcome)

InitRun == Constructed /\ HasCredentials(env) /\ run = Started

SpecRun == InitRun /\ [][NextRun]_vars


----------------------------------------------------------------------------
(* Properties *)

IsTool(name) == last.op = "tool" /\ last.name = name

\* the text of the one content block of the last tool result
ResultText == last.result.content[1].text

\* C1: every tool invocation resolves with exactly one text block; when
\* something threw inside the handler the text is "Error: <message>" and
\* isError is set, nothing is thrown on to the transport, and a result
\* without a throw carries no isError.
C1_UniformResult ==
    last.op = "tool" =>
        /\ ~last.result.escaped
        /\ Len(last.result.content) = 1
        /\ last.result.content[1].type = "text"
        /\ last.result.isError = last.threw
        /\ last.threw => Len(ResultText) > 1 /\ Head(ResultText) = "Error: "

\* C1 witness: a read_file whose login the provider rejected is answered
\* with the error text
C1_Witness ==
    /\ IsTool("read_file") /\ last.login /\ last.result.isError
    /\ ResultText = <<"Error: ">> \o LoginRejectedMessage


\* the result of an invocation whose try block threw message
ErrorResult(message) ==
    [escaped |-> FALSE, isError |-> TRUE,
     content |-> <<[type |-> "text", text |-> <<"Error: ">> \o message]>>]

\* the last invocation named a tool the switch has no case for
UnknownAnswered == last.op = "tool" /\ last.name \notin ToolNames

\* C2: a request for a name outside the four tools is answered with exactly
\* "Error: Unknown tool: <name>" and isError; it calls no evaluator, starts
\* no login and no fetch, and the step that answers it leaves the session,
\* the files and the invocations in flight as they were, whatever the
\* session's state.
C2_UnknownTool ==
    /\ [](UnknownAnswered =>
            /\ last.result = ErrorResult(<<"Unknown tool: ", last.name>>)
            /\ ~last.auth /\ ~last.login /\ ~last.fetched /\ ~last.evaluated)
    /\ [][(last' # last /\ UnknownAnswered') =>
            UNCHANGED <<env, session, files, calls>>]_vars

\* C2 witness: an unknown tool answered while the session is logged in and
\* another invocation awaits the network
C2_Witness ==
    /\ UnknownAnswered /\ last.name = "delete_file"
    /\ last.result.isError
    /\ session.isLoggedIn
    /\ \E c \in BagToSet(calls) : c.pc = "fetch"

\* the characters the claims about calculate call allowed
Whitelist ==
    {"0", "1", "2", "3", "4", "5", "6", "7", "8", "9",
     "+", "-", "*", "/", "(", ")", ".", " "}

\* the last invocation was calculate with the string e as its expression
Calculated(e) ==
    /\ IsTool("calculate")
    /\ last.args.defined
    /\ last.args.expression = [t |-> "string", v |-> e]

\* the string the last calculate invocation was given
Expression == last.args.expression.v

\* C3: a calculate expression with a character outside digits, + - * / ( ) .
\* and space is answered with an error-flagged "Invalid characters ..."
\* message and the evaluator is not called; whenever the evaluator is called
\* the string it is given is the input expression, character for character.
C3_Whitelist ==
    Calculated(Expression) =>
        /\ (\E i \in 1..Len(Expression) : Expression[i] \notin Whitelist) =>
              /\ ~last.evaluated
              /\ last.result.isError
              /\ ResultText = <<"Error: ",
                   "Invalid characters in expression. Only numbers and +, -, *, /, (, ) are allowed.">>
        /\ last.evaluated =>
              /\ last.code = Expression
              /\ \A i \in 1..Len(Expression) : Expression[i] \in Whitelist

\* C3 witness: an expression with a letter among allowed characters was
\* refused, unevaluated
C3_Witness ==
    /\ Calculated(<<"1", "a", "+", "2">>)
    /\ ~last.evaluated /\ last.result.isError


----------------------------------------------------------------------------
(* Standard arithmetic on a written expression, by splitting it at its     *)
(* last operator of lowest precedence; exact fractions n/d.                *)

ArithDigit ==
    [c \in {"0", "1", "2", "3", "4", "5", "6", "7", "8", "9"} |->
        CASE c = "0" -> 0 [] c = "1" -> 1 [] c = "2" -> 2 [] c = "3" -> 3
          [] c = "4" -> 4 [] c = "5" -> 5 [] c = "6" -> 6 [] c = "7" -> 7
          [] c = "8" -> 8 [] c = "9" -> 9]

ArithNone == [defined |-> FALSE, n |-> 0, d |-> 1]

RECURSIVE ArithGcd(_, _)
ArithGcd(a, b) ==
    IF a = 0 THEN b ELSE IF b = 0 THEN a
    ELSE IF a >= b THEN ArithGcd(a % b, b) ELSE ArithGcd(a, b % a)

ArithAbs(n) == IF n < 0 THEN 0 - n ELSE n

\* n/d in lowest terms (d > 0), when a double holds it exactly inside the
\* range the model tracks
ArithExact(n, d) ==
    IF ArithAbs(n) <= MaxNum /\ d <= MaxDen /\ d \in {1, 2, 4, 8, 16, 32, 64}
    THEN [defined |-> TRUE, n |-> n, d |-> d]
    ELSE ArithNone

\* (p * q) / (r * t), the factors cancelled crosswise first; p/r and q/t are
\* in lowest terms, r, t > 0
ArithProduct(p, r, q, t) ==
    LET g1 == ArithGcd(ArithAbs(p), t)
        g2 == ArithGcd(ArithAbs(q), r)
        p1 == p \div g1
        q1 == q \div g2
        r1 == r \div g2
        t1 == t \div g1
    IN  IF p = 0 \/ q = 0 THEN ArithExact(0, 1)
        ELSE IF ArithAbs(p1) > MaxNum \div ArithAbs(q1) \/ r1 > MaxDen \div t1
        THEN ArithNone
        ELSE ArithExact(p1 * q1, r1 * t1)

ArithApply(op, a, b) ==
    IF ~a.defined \/ ~b.defined THEN ArithNone
    ELSE CASE op = "+" ->
                LET n == a.n * b.d + b.n * a.d
                    d == a.d * b.d
                    g == ArithGcd(ArithAbs(n), d)
                IN  ArithExact(n \div g, d \div g)
           [] op = "-" ->
                LET n == a.n * b.d - b.n * a.d
                    d == a.d * b.d
                    g == ArithGcd(ArithAbs(n), d)
                IN  ArithExact(n \div g, d \div g)
           [] op = "*" -> ArithProduct(a.n, a.d, b.n, b.d)
           [] op = "/" ->
                IF b.n = 0 THEN ArithNone
                ELSE IF b.n > 0 THEN ArithProduct(a.n, a.d, b.d, b.n)
                ELSE ArithProduct(a.n, a.d, 0 - b.d, 0 - b.n)

RECURSIVE ArithTrim(_)
ArithTrim(e) ==
    IF e # <<>> /\ Head(e) = " " THEN ArithTrim(Tail(e))
    ELSE IF e # <<>> /\ e[Len(e)] = " " THEN ArithTrim(SubSeq(e, 1, Len(e) - 1))
    ELSE e

\* the parentheses open before position i
ArithDepth(e, i) ==
    Cardinality({j \in 1..(i - 1) : e[j] = "("})
      - Cardinality({j \in 1..(i - 1) : e[j] = ")"})

\* position i holds one of ops, outside parentheses, after an operand
ArithBinaryAt(e, i, ops) ==
    /\ e[i] \in ops
    /\ ArithDepth(e, i) = 0
    /\ \E j \in 1..(i - 1) :
          /\ e[j] \in DOMAIN ArithDigit \cup {")"}
          /\ \A k \in (j + 1)..(i - 1) : e[k] = " "

RECURSIVE ArithNumber(_)
ArithNumber(e) ==
    IF e = <<>> THEN 0
    ELSE 10 * ArithNumber(SubSeq(e, 1, Len(e) - 1)) + ArithDigit[e[Len(e)]]

\* a decimal integer without a leading zero
ArithLiteral(e) ==
    IF /\ e # <<>>
       /\ Len(e) <= 8
       /\ \A i \in 1..Len(e) : e[i] \in DOMAIN ArithDigit
       /\ (Len(e) = 1 \/ e[1] # "0")
    THEN ArithExact(ArithNumber(e), 1)
    ELSE ArithNone

RECURSIVE ArithValue(_)
\* the value of the expression; undefined when it is not well formed, divides
\* by zero, or leaves the exact range on the way
ArithValue(written) ==
    LET e == ArithTrim(written)
        n == Len(e)
        adds == {i \in 1..n : ArithBinaryAt(e, i, {"+", "-"})}
        muls == {i \in 1..n : ArithBinaryAt(e, i, {"*", "/"})}
        Last(S) == CHOOSE i \in S : \A j \in S : j <= i
        Split(i) == ArithApply(e[i], ArithValue(SubSeq(e, 1, i - 1)),
                               ArithValue(SubSeq(e, i + 1, n)))
    IN  IF n = 0 THEN ArithNone
        ELSE IF adds # {} THEN Split(Last(adds))
        ELSE IF muls # {} THEN Split(Last(muls))
        ELSE IF e[1] = "-" THEN ArithApply("-", ArithExact(0, 1), ArithValue(Tail(e)))
        ELSE IF e[1] = "+" THEN ArithValue(Tail(e))
        ELSE IF e[1] = "(" /\ e[n] = ")" /\ \A i \in 2..n : ArithDepth(e, i) >= 1
        THEN ArithValue(SubSeq(e, 2, n - 1))
        ELSE ArithLiteral(e)

RECURSIVE ArithPlaces(_, _)
\* f written in w places
ArithPlaces(f, w) ==
    IF w = 0 THEN "" ELSE ArithPlaces(f \div 10, w - 1) \o ToString(f % 10)

RECURSIVE ArithFraction(_, _)
\* f (not 0) written in w places, without the zeros at the end
ArithFraction(f, w) ==
    IF f % 10 = 0 THEN ArithFraction(f \div 10, w - 1) ELSE ArithPlaces(f, w)

\* the decimal numeral of an exact value
ArithText(v) ==
    LET whole == ArithAbs(v.n) \div v.d
        f == (ArithAbs(v.n) % v.d) * (1000000 \div v.d)
    IN  (IF v.n < 0 THEN "-" ELSE "")
          \o ToString(whole)
          \o (IF f = 0 THEN "" ELSE "." \o ArithFraction(f, 6))


\* the characters of an arithmetic expression, with the space or with every
\* whitespace character
ArithChars == DOMAIN ArithDigit \cup {"+", "-", "*", "/", "(", ")", " "}

ArithCharsAnySpace == ArithChars \cup {"\t"}

Over(e, chars) == \A i \in 1..Len(e) : e[i] \in chars

\* no "++" and no "--"
NoDoubledSign(e) ==
    \A i \in 1..(Len(e) - 1) : ~(e[i] = e[i + 1] /\ e[i] \in {"+", "-"})

\* the non-error answer "<expression> = <value>" for the value v
Answered(e, v) ==
    /\ ~last.result.isError
    /\ ResultText = <<Join(e), " = ", ArithText(v)>>

\* C4, as claimed: every expression of digits, whitespace, + - * / and
\* parentheses gets the non-error answer "<expression> = <value>", with the
\* value of standard arithmetic wherever the expression has one.
C4_EveryExpression ==
    (Calculated(Expression) /\ Over(Expression, ArithCharsAnySpace)) =>
        /\ ~last.result.isError
        /\ ArithValue(Expression).defined =>
              Answered(Expression, ArithValue(Expression))

\* C4, amended: an expression of digits, spaces, + - * / and parentheses
\* that is well formed (integers without a leading zero, binary + - * /,
\* a sign before an operand, parentheses, no "++" and no "--"), divides by
\* no zero and keeps every intermediate result exact gets the non-error
\* answer "<expression> = <value>" with the value of standard arithmetic.
C4_WellFormed ==
    (/\ Calculated(Expression)
     /\ Over(Expression, ArithChars)
     /\ NoDoubledSign(Expression)
     /\ ArithValue(Expression).defined) =>
        /\ last.evaluated
        /\ Answered(Expression, ArithValue(Expression))

\* C4 witness: "2 + 2 * 3 = 8"
C4_Witness ==
    /\ Calculated(<<"2", " ", "+", " ", "2", " ", "*", " ", "3">>)
    /\ ArithValue(Expression) = [defined |-> TRUE, n |-> 8, d |-> 1]
    /\ ResultText = <<"2 + 2 * 3", " = ", "8">>


----------------------------------------------------------------------------
(* read_file and the session *)

\* both credentials are in the environment
CredentialsSet == env.SOLID_CLIENT_ID # "" /\ env.SOLID_CLIENT_SECRET # ""

\* the last invocation was read_file, started on a session that was not
\* logged in, with arguments the schema accepts
ReadLoggedOut == IsTool("read_file") /\ last.args.defined /\ ~last.startLoggedIn

\* C5, as claimed: read_file on a session that is not logged in answers
\* "not authenticated" without an error flag, requests nothing from the
\* network and leaves the session as it was.
C5_NotAuthenticated ==
    /\ [](ReadLoggedOut =>
            /\ ~last.result.isError
            /\ ResultText = <<"not authenticated">>
            /\ ~last.login /\ ~last.fetched)
    /\ [][(last' # last /\ ReadLoggedOut') => session' = session]_vars

\* C5, amended: read_file on a session that is not logged in never answers
\* "not authenticated": it calls authenticateWithSolid, which requests a
\* login exactly when both credentials are set.  Without them the answer is
\* the error-flagged "Error: Missing SOLID_CLIENT_ID or SOLID_CLIENT_SECRET
\* environment variables", nothing is requested and the session is left as
\* it was.  With them, the profile is fetched only after the login, and an
\* invocation that fetched nothing answers with an error flag.
C5_LoginAttempted ==
    /\ [](ReadLoggedOut =>
            /\ last.auth
            /\ ResultText # <<"not authenticated">>
            /\ last.login = CredentialsSet
            /\ ~last.login =>
                  /\ ~last.fetched
                  /\ last.result = ErrorResult(
                       <<"Missing SOLID_CLIENT_ID or SOLID_CLIENT_SECRET environment variables">>)
            /\ ~last.fetched => last.result.isError)
    /\ [][(last' # last /\ ReadLoggedOut' /\ ~last'.login) => session' = session]_vars

\* C5 witness: a read_file that started logged out answered with the
\* profile, having logged in and fetched
C5_Witness ==
    /\ ReadLoggedOut /\ last.login /\ last.fetched
    /\ ~last.result.isError
    /\ session.isLoggedIn

\* position i of text starts the segments of w
HoldsAt(text, i, w) == i + Len(w) - 1 <= Len(text) /\ SubSeq(text, i, i + Len(w) - 1) = w

\* the text reports the authentication and the WebID w
ReportsWebId(text, w) ==
    /\ \E i \in 1..Len(text) :
          text[i] = "Authentication Status: Successfully authenticated with Solid Pod\n"
    /\ \E i \in 1..Len(text) :
          text[i] = "WebID Retrieved from Session: " /\ HoldsAt(text, i + 1, w)

\* C6, as claimed: a read_file invocation calls authenticateWithSolid if and
\* only if the session was not logged in when it started, then fetches the
\* profile and answers with one non-error text block that holds the
\* authentication status and the session's WebID; an invocation on a
\* logged-in session requests no login.
C6_LoginIffLoggedOut ==
    IsTool("read_file") =>
        /\ last.auth = ~last.startLoggedIn
        /\ last.startLoggedIn => ~last.login
        /\ last.fetched
        /\ ~last.result.isError
        /\ Len(last.result.content) = 1
        /\ ReportsWebId(ResultText, session.webId)

\* C6, amended: a read_file invocation whose arguments the schema accepts
\* calls authenticateWithSolid if and only if the session was not logged in
\* when it started (one with arguments the schema refuses calls nothing and
\* answers with an error flag); an invocation on a logged-in session
\* requests no login; and when the login, if any, and the fetch of the
\* profile succeed, the answer is one non-error text block that holds the
\* authentication status and the session's WebID.
C6_LoginWhenNeeded ==
    IsTool("read_file") =>
        /\ last.args.defined => last.auth = ~last.startLoggedIn
        /\ ~last.args.defined => ~last.auth /\ ~last.fetched /\ last.result.isError
        /\ last.startLoggedIn => ~last.login
        /\ last.login => last.auth
        /\ ~last.threw =>
              /\ last.fetched
              /\ ~last.result.isError
              /\ Len(last.result.content) = 1
              /\ session.webId # <<>>
              /\ ReportsWebId(ResultText, session.webId)

\* C6 witness: a read_file on a session already logged in answered with the
\* profile without a login
C6_Witness ==
    /\ IsTool("read_file") /\ last.startLoggedIn
    /\ ~last.auth /\ ~last.login /\ last.fetched
    /\ ~last.result.isError
    /\ ReportsWebId(ResultText, <<"https://", "id.example/alice#me">>)


----------------------------------------------------------------------------
(* The session's life: login, logout, login *)

\* testAuthenticateWithSolid returned its result
AuthReturned == last.op = "testAuthenticateWithSolid" /\ ~last.threw

\* the step lets the authenticateWithSolid of the invocation c run on from
\* its await
AuthResumes(c) == c.pc = "login" /\ CopiesIn(c, calls') < CopiesIn(c, calls)

\* in such a step authenticateWithSolid returns to its caller
AuthReturns(c) ==
    IF c.op = "tool"
    THEN BagCardinality(calls') = BagCardinality(calls)
    ELSE last'.op = "testAuthenticateWithSolid" /\ ~last'.threw

\* in such a step authenticateWithSolid throws message
AuthThrows(c, message) ==
    IF c.op = "tool"
    THEN /\ BagCardinality(calls') < BagCardinality(calls)
         /\ last'.result = ErrorResult(message)
    ELSE /\ last'.op = "testAuthenticateWithSolid"
         /\ last'.threw /\ last'.test.message = message

LogoutReturns == last' # last /\ last'.op = "testLogout"

\* the step completes a login that logs the session in
LoginSucceeds ==
    \E c \in BagToSet(calls) : AuthResumes(c) /\ LoginSettles(c, "loggedIn")

\* C8: a logout leaves isLoggedIn false, whatever it does to webId, and
\* isLoggedIn goes from false to true only in a step that completes a
\* successful login.
C8_LoggedOutUntilLogin ==
    [][/\ LogoutReturns => ~session'.isLoggedIn
       /\ (~session.isLoggedIn /\ session'.isLoggedIn) => LoginSucceeds]_vars

\* C8 witness: a logout of a logged-in session returned; the session is
\* logged out and still holds its webId
C8_Witness ==
    /\ last.op = "testLogout" /\ last.startLoggedIn
    /\ ~getSessionInfo.isLoggedIn
    /\ getSessionInfo.webId # <<>>

\* the invocation c started on a session that had logged in and out
AfterLogout(c) == ~c.startLoggedIn /\ c.startWebId # <<>>

\* C9: after login and logout, with the credentials set, the next
\* authenticateWithSolid that the provider accepts returns normally, with
\* isLoggedIn true again and the session's webId the one it returns.
C9_LoginAgain ==
    /\ [][\A c \in BagToSet(calls) :
            (/\ c.op = "testAuthenticateWithSolid"
             /\ AfterLogout(c)
             /\ LoginSettles(c, "loggedIn")) =>
                /\ last'.op = "testAuthenticateWithSolid"
                /\ ~last'.threw
                /\ last'.test.success
                /\ session'.isLoggedIn
                /\ session'.webId = last'.test.webId]_vars
    /\ []((AuthReturned /\ AfterLogout(last)) =>
            /\ session.isLoggedIn
            /\ session.webId = last.test.webId)

\* C9 witness: an authentication that started after a logout returned
C9_Witness ==
    /\ AuthReturned /\ AfterLogout(last)
    /\ last.test.success
    /\ session.isLoggedIn
    /\ session.webId = last.test.webId

----------------------------------------------------------------------------
(* The login page listener of run() *)

\* the step handles a request on port 2233
Handles == http'.n = http.n + 1

\* the step handles a request whose URL includes "callback"
HandlesCallback == Handles /\ "callback" \in http'.url

\* the process runs and the listener on port 2233 accepts connections
ListenerOpen == run.listener = "listening"

\* C11: once the browser was sent to the start page and the callback route
\* has handled the provider's redirect (a begin()/complete() pair), the
\* session is logged in with a WebID and the listener is closed, so that a
\* connection to port 2233 fails.
C11_LoggedInListenerClosed ==
    (http.callbacks > 0 /\ run.pc # "exited") =>
        /\ session.isLoggedIn
        /\ session.webId # NoWebId
        /\ ~ListenerOpen

\* C12: every step in which the callback route handles a request, whether
\* the exchange succeeded or not, leaves the listener closed.
C12_CallbackClosesListener ==
    [][HandlesCallback => ~ListenerOpen']_vars

C14_BrokerStates ==
    /\ [](http.callbacks > 0 =>
            \/ session.isLoggedIn
            \/ ~session.isLoggedIn /\ ~ListenerOpen)
    /\ [][http.callbacks > 0 => ~Handles]_vars

\* C15: every step in which the start route handles a request leaves a
\* fresh session: not logged in, and without a WebID.
C15_StartInstallsFreshSession ==
    [][(Handles /\ "start" \in http'.url) =>
         /\ ~session'.isLoggedIn
         /\ session'.webId = NoWebId]_vars

\* C16: the dispatcher is connected to its transport, and handles tool
\* invocations, only when the listener is no longer open.
C16_ServesAfterListenerClosed ==
    (Serving \/ last.op = "tool" \/ calls # EmptyBag) => ~ListenerOpen

----------------------------------------------------------------------------
(* Frame of the session, and validation before effects *)

\* the step runs one of calculate, write_file, list_directory, an unknown
\* tool, the tool listing, or a part of a profile fetch
FrameStep ==
    \/ ListTools
    \/ \E name \in UnknownNames : CallUnknown(name)
    \/ last'.name = "calculate" /\ CallCalculate(last'.args)
    \/ last'.name = "write_file" /\ CallWriteFile(last'.args)
    \/ last'.name = "list_directory" /\ CallListDirectory(last'.args)
    \/ \E webId \in WebIds : TestFetchWebIdProfile(webId)
    \/ \E c \in BagToSet(calls), outcome \in FetchOutcomes : FetchSettles(c, outcome)

\* the step settles a session.login, or is a logout
LoginOrLogout ==
    \/ \E c \in BagToSet(calls), outcome \in LoginOutcomes : LoginSettles(c, outcome)
    \/ TestLogout

\* the step ends a testFetchWebIdProfile that returns
FetchReturns ==
    /\ \E c \in BagToSet(calls), outcome \in FetchOutcomes :
          c.op = "testFetchWebIdProfile" /\ FetchSettles(c, outcome)
    /\ ~last'.threw

\* C17: calculate, write_file, list_directory, unknown-tool invocations,
\* the tool listing and the profile fetch leave the session's isLoggedIn
\* and webId as they were; the session changes only in a step that settles
\* a login or is a logout; and the session info read after a profile fetch
\* returned is that of the session as it was before the fetch returned.
C17_SessionFrame ==
    [][/\ FrameStep =>
            /\ session'.isLoggedIn = session.isLoggedIn
            /\ session'.webId = session.webId
       /\ session' # session => LoginOrLogout
       /\ FetchReturns =>
            /\ last'.test.isLoggedIn = session.isLoggedIn
            /\ last'.test.sessionWebId = session.webId]_vars

\* C17 witness: a profile fetch that started on a logged-in session
\* returned, and the session is logged in with the WebID it had
C17_Witness ==
    /\ last.op = "testFetchWebIdProfile"
    /\ ~last.threw
    /\ last.startLoggedIn
    /\ last.test.isLoggedIn
    /\ last.test.sessionWebId = last.startWebId
    /\ session.isLoggedIn
    /\ session.webId = last.startWebId

\* the last tool invocation had arguments that its schema does not accept,
\* or an expression with a character outside the whitelist
Rejected ==
    /\ last.op = "tool"
    /\ \/ last.name = "read_file" /\ ~ParsesAs(last.args, {})
       \/ last.name = "write_file" /\ ~ParsesAs(last.args, {"path", "content"})
       \/ last.name = "list_directory" /\ ~ParsesAs(last.args, {"path"})
       \/ /\ last.name = "calculate"
          /\ \/ ~ParsesAs(last.args, {"expression"})
             \/ \E i \in 1..Len(Expression) : Expression[i] \notin Whitelist

\* C18: an invocation whose arguments fail validation is answered with the
\* one error-flagged text block, and did nothing else: no writeFile and no
\* readdir was called, no authentication, login or fetch was started and
\* nothing was evaluated; the step that answers it leaves the files, the
\* session and the invocations in flight as they were.
C18_RejectedBeforeEffects ==
    /\ [](Rejected =>
            /\ last.result \in {ErrorResult(ZodMessage),
                                ErrorResult(InvalidCharactersMessage)}
            /\ last.fs = "none"
            /\ ~last.evaluated
            /\ ~last.auth /\ ~last.login /\ ~last.fetched)
    /\ [][(Rejected' /\ last' # last) =>
            UNCHANGED <<session, files, calls>>]_vars

\* C18 witness: a write_file without content was rejected, with a file
\* written before it still in place
C18_Witness ==
    /\ Rejected
    /\ IsTool("write_file")
    /\ last.args.path.t = "string"
    /\ last.result.isError
    /\ last.fs = "none"
    /\ DOMAIN files = {<<"/", "work", "a.txt">>}

----------------------------------------------------------------------------
(* write_file and list_directory on the filesystem *)

\* the text has the line of a file called name
ListsFile(text, name) ==
    \E i \in 1..(Len(text) - 2) :
        text[i] = "[file]" /\ text[i + 1] = " " /\ text[i + 2] = name

\* the path the last invocation was given, resolved
LastPath == resolve(last.args.path.v)

\* the last invocation was the tool name with arguments of its schema
Accepted(name, props) == IsTool(name) /\ ParsesAs(last.args, props)

\* the step is a write_file invocation that succeeds
WriteSucceeds ==
    /\ last' # last
    /\ Accepted("write_file", {"path", "content"})'
    /\ ~last'.result.isError

\* C19: a write_file that succeeds leaves its file, with the content, next
\* to every file written before it; and a list_directory of a directory
\* answers with a line marking as a file each file written under it,
\* whatever was written to other paths in between: so does the listing of
\* the parent of every written file.
C19_WrittenFileListed ==
    /\ [][WriteSucceeds =>
            /\ LastPath' \in DOMAIN files'
            /\ files'[LastPath'] = last'.args.content.v
            /\ \A q \in DOMAIN files : q \in DOMAIN files']_vars
    /\ [](\A q \in DOMAIN files :
            /\ ListDirectory(Args(StringArg(Front(q)), Missing, Missing),
                             files).body.kind = "return"
            /\ ListsFile(ListDirectory(Args(StringArg(Front(q)), Missing, Missing),
                                       files).body.text, q[Len(q)]))
    /\ []((Accepted("list_directory", {"path"}) /\ ~last.result.isError) =>
            \A q \in DOMAIN files :
                Front(q) = LastPath => ListsFile(ResultText, q[Len(q)]))

\* C19 witness: the working directory was listed after a.txt and b.txt were
\* written to it and a third file elsewhere, and the listing has both
C19_Witness ==
    /\ Accepted("list_directory", {"path"})
    /\ LastPath = Cwd
    /\ DOMAIN files = {<<"/", "work", "a.txt">>, <<"/", "work", "b.txt">>,
                       <<"/", "a.txt">>}
    /\ ListsFile(ResultText, "a.txt")
    /\ ListsFile(ResultText, "b.txt")

\* the step is a write_file invocation that fails
WriteFails ==
    /\ last' # last
    /\ Accepted("write_file", {"path", "content"})'
    /\ last'.result.isError

\* C20: a write_file under a read-only directory or a missing one, and a
\* list_directory of a missing path, are answered with the error-flagged
\* text of the filesystem's error and not with a rejected handler; a
\* write_file that fails leaves every file, and the entries of every
\* directory, as they were.
C20_FilesystemFailures ==
    /\ []((Accepted("write_file", {"path", "content"})
             /\ Front(LastPath) = ReadOnlyDir) =>
            last.result = ErrorResult(<<"EACCES: permission denied, open '",
                                        PathText(LastPath), "'">>))
    /\ []((Accepted("write_file", {"path", "content"})
             /\ Front(LastPath) \notin Dirs) =>
            last.result = ErrorResult(<<"ENOENT: no such file or directory, open '",
                                        PathText(LastPath), "'">>))
    /\ []((Accepted("list_directory", {"path"})
             /\ LastPath \notin Dirs \cup DOMAIN files) =>
            last.result = ErrorResult(<<"ENOENT: no such file or directory, scandir '",
                                        PathText(LastPath), "'">>))
    /\ [][WriteFails =>
            /\ files' = files
            /\ \A d \in Dirs :
                  DirEntries(d, DOMAIN files') = DirEntries(d, DOMAIN files)]_vars

\* C20 witness: a write_file under the read-only directory failed after a
\* file was written to the working directory
C20_Witness ==
    /\ Accepted("write_file", {"path", "content"})
    /\ LastPath = <<"/", "ro", "a.txt">>
    /\ last.result.isError
    /\ ~last.result.escaped
    /\ last.fs = "writeFile"
    /\ DOMAIN files = {<<"/", "work", "a.txt">>}

----------------------------------------------------------------------------
(* The routes of the login page listener *)

\* the response to the last request handled
Response == http.res

\* the response of a route that answered alone
Answer(type, body) ==
    [headersSent |-> TRUE, status |-> 200, type |-> type, body |-> body,
     ended |-> TRUE, threw |-> FALSE]

----------------------------------------------------------------------------
(* Missing credentials *)

\* an invocation in flight has called session.login
LoginInFlight == \E c \in BagToSet(calls) : c.pc = "login" \/ c.login

\* C22: with SOLID_CLIENT_ID or SOLID_CLIENT_SECRET unset or empty,
\* authenticateWithSolid throws "Missing SOLID_CLIENT_ID or
\* SOLID_CLIENT_SECRET environment variables" before it calls
\* session.login: no login is ever in flight, the session stays as the
\* constructor left it, testAuthenticateWithSolid throws the message, and a
\* read_file invocation is answered with "Error: Missing ..." and isError,
\* having fetched nothing.
C22_MissingCredentials ==
    ~CredentialsSet =>
        /\ ~LoginInFlight
        /\ session = NewSession
        /\ (IsTool("read_file") /\ ParsesAs(last.args, {})) =>
              /\ last.result = ErrorResult(MissingCredentialsMessage)
              /\ last.auth /\ ~last.login /\ ~last.fetched
        /\ last.op = "testAuthenticateWithSolid" =>
              /\ last.threw
              /\ last.test.message = MissingCredentialsMessage
              /\ ~last.login

\* C22 witness: read_file answered with the message while the client id
\* alone is missing, with a profile fetch of the test wrapper in flight
C22_Witness ==
    /\ env.SOLID_CLIENT_ID = Unset
    /\ env.SOLID_CLIENT_SECRET # Unset
    /\ IsTool("read_file")
    /\ last.result = ErrorResult(MissingCredentialsMessage)
    /\ calls # EmptyBag
    /\ session = NewSession

----------------------------------------------------------------------------
(* Invocations interleaving on the session *)

\* the read_file invocations in flight that await their session.login
ReadLogins == {c \in BagToSet(calls) : c.op = "tool" /\ c.pc = "login"}

\* C23: nothing guards the session between the isLoggedIn test of read_file
\* and its login: every read_file that awaits session.login saw isLoggedIn
\* false, and a read_file invoked on a session that is not logged in, with
\* the credentials set, puts one more login in flight whatever logins are
\* in flight already.
C23_LoginsUnguarded ==
    /\ [](\A c \in ReadLogins : ~c.startLoggedIn /\ c.auth /\ c.login)
    /\ [][(CallReadFile(EmptyObject) /\ ~session.isLoggedIn /\ CredentialsSet) =>
            \E c \in ReadLogins' :
                /\ ~c.startLoggedIn
                /\ CopiesIn(c, calls') = CopiesIn(c, calls) + 1]_vars

\* C23 witness: two read_file invocations saw isLoggedIn false and each has
\* its session.login in flight on the one session, which is not logged in
C23_Witness ==
    /\ ~session.isLoggedIn
    /\ \E c \in ReadLogins : ~c.startLoggedIn /\ CopiesIn(c, calls) = 2

----------------------------------------------------------------------------
(* Login attempts, and the interrupt *)

\* C24: at most one login attempt is outstanding: never has the listener
\* served the start page of an attempt while the start page of another
\* attempt is still without its callback (and there is one listener).
C24_OneAttemptOutstanding ==
    /\ http.pending <= 1
    /\ run.listener \in {"none", "listening"}

\* the step is the SIGINT handler up to its await
Interrupts == run.sigint = "none" /\ run'.sigint = "closing"

\* C25: on SIGINT the handler first closes the transport, with the process
\* running on and the listener as it was, and only after that exits with
\* status 0, which is the one way to that status; it never closes the
\* listener, so an interrupt during a login leaves port 2233 listening
\* until the process has ended.
C25_InterruptLeavesListener ==
    /\ [][Interrupts =>
            /\ run'.pc = run.pc
            /\ run'.transport # "connected"
            /\ run'.listener = run.listener]_vars
    /\ [](run.sigint = "closing" =>
            run.pc # "exited" /\ run.transport # "connected")
    /\ [][run.sigint = "closing" => run' = Exited(0)]_vars
    /\ [][(run'.status = 0 /\ run.status # 0) => run.sigint = "closing"]_vars
    /\ [](run.listener # "closed")

\* C25 witness: SIGINT came while the browser was at the login, after the
\* start page was served: no transport is connected, the process runs and
\* the listener listens
C25_Witness ==
    /\ run.sigint = "closing"
    /\ run.pc = "open"
    /\ http.pending = 1
    /\ ListenerOpen

----------------------------------------------------------------------------
(* calculate: results that are not finite, and an evaluator that throws *)

\* the non-error answer "<expression> = <text>"
AnsweredText(e, text) ==
    /\ ~last.result.isError
    /\ ResultText = <<Join(e), " = ", text>>

\* C26: a division whose result is not finite is answered like any other:
\* "d/0 = Infinity" for a digit d other than 0, "-1/0 = -Infinity" and
\* "0/0 = NaN", without an error flag; and no answer that ends in Infinity,
\* -Infinity or NaN carries one.
C26_NonFiniteAnswered ==
    /\ \A d \in {"1", "2", "3"} :
          Calculated(<<d, "/", "0">>) => AnsweredText(<<d, "/", "0">>, "Infinity")
    /\ Calculated(<<"-", "1", "/", "0">>) =>
          AnsweredText(<<"-", "1", "/", "0">>, "-Infinity")
    /\ Calculated(<<"0", "/", "0">>) => AnsweredText(<<"0", "/", "0">>, "NaN")
    /\ (/\ Calculated(Expression)
        /\ last.evaluated
        /\ EvalFunction(last.code).kind = "return"
        /\ EvalFunction(last.code).value.k \in {"inf", "ninf", "nan"}) =>
          /\ ~last.result.isError
          /\ ResultText[3] \in {"Infinity", "-Infinity", "NaN"}

\* C26 witness: "1/0 = Infinity"
C26_Witness ==
    /\ Calculated(<<"1", "/", "0">>)
    /\ last.evaluated
    /\ ResultText = <<"1/0", " = ", "Infinity">>
    /\ ~last.result.isError

\* the error-flagged answer "Error: Failed to evaluate expression: ..."
FailedToEvaluate ==
    /\ last.result.isError
    /\ ~last.result.escaped
    /\ Len(ResultText) > 2
    /\ ResultText[1] = "Error: "
    /\ ResultText[2] = "Failed to evaluate expression: "

\* C27: every expression over the whitelist is evaluated and is answered
\* either with the error-flagged "Error: Failed to evaluate expression:
\* <message>", when the evaluator threw, or with the non-error "<expression>
\* = <result>", when it returned; the empty expression, "2 +", "(1" and
\* "(1)(2)" are answered with the error.
C27_EvaluatorThrows ==
    /\ (Calculated(Expression) /\ Over(Expression, Whitelist)) =>
          /\ last.evaluated
          /\ last.code = Expression
          /\ EvalFunction(last.code).kind = "throw" => FailedToEvaluate
          /\ EvalFunction(last.code).kind = "return" =>
                /\ ~last.result.isError
                /\ Len(ResultText) = 3
                /\ ResultText[1] = Join(Expression)
                /\ ResultText[2] = " = "
    /\ \A e \in {<<>>, <<"2", " ", "+">>, <<"(", "1">>,
                 <<"(", "1", ")", "(", "2", ")">>} :
          Calculated(e) => FailedToEvaluate

\* C27 witness: "(1)(2)" answered with the error of the evaluator
C27_Witness ==
    /\ Calculated(<<"(", "1", ")", "(", "2", ")">>)
    /\ last.evaluated
    /\ FailedToEvaluate
    /\ ResultText = <<"Error: ", "Failed to evaluate expression: ",
                      "TypeError: not a function">>

----------------------------------------------------------------------------
(* The listing and the dispatch *)

\* the names of a listing
Listed(tools) == {tools[i] : i \in 1..Len(tools)}

\* C28: the listing names read_file, write_file, list_directory and
\* calculate, in every state it is asked in, and these are the names the
\* CallTool handler has a case for: an invocation is answered with
\* "Error: Unknown tool: <name>" if and only if its name is not listed.
C28_ListingIsDispatch ==
    /\ last.op = "list" =>
          /\ last.tools = Tools
          /\ Listed(last.tools) =
                {"read_file", "write_file", "list_directory", "calculate"}
    /\ Listed(Tools) = ToolNames
    /\ last.op = "tool" =>
          (last.result = ErrorResult(<<"Unknown tool: ", last.name>>)
             <=> last.name \notin Listed(Tools))

\* C28 witness: the listing, asked of a server whose session is logged in
\* and has a file written
C28_Witness ==
    /\ last.op = "list"
    /\ Len(last.tools) = 4
    /\ session.isLoggedIn
    /\ files # <<>>

\* C29: every request the listener handled has one complete response: its
\* URL fired at most one route, the response was written and ended, and
\* nothing threw writing to a response that had ended.
C29_OneCompleteResponse ==
    http.n > 0 =>
        /\ Cardinality(http.url) <= 1
        /\ Response.ended
        /\ ~Response.threw

====
